---- MODULE Spec2Model ----
(***************************************************************************)
(* State-machine model of illicit_detection_app.py: the module-level       *)
(* script (lines 230-277) and the function it calls,                       *)
(* create_detection_results_map (lines 112-207).                           *)
(*                                                                         *)
(* Numbers are fixed point.  Confidences and radii are in hundredths       *)
(* (0.8 is 80, radius 8 + c*10 is 800 + 10*c); coordinates are in units    *)
(* of 1e-4 degree (the resolution of the popup's {lat:.4f}).               *)
(*                                                                         *)
(* numpy's global generator (MT19937) is abstracted as a deterministic     *)
(* generator over RngMod states: every draw advances the state by NextRng  *)
(* and derives its value from the new state.  The state that               *)
(* np.random.seed(42) produces is fixed but left open: mt_key, chosen once *)
(* at Init and never changed, selects it, so each behaviour has one        *)
(* deterministic generator and the behaviours together cover NumKeys       *)
(* different streams.                                                      *)
(***************************************************************************)
EXTENDS Integers, Sequences, FiniteSets

VARIABLES
    pc,              \* position of the script / of the function it called
    run,             \* how many times the script has been started
    rng,             \* state of the process-wide np.random generator
    mt_key,          \* which seeding map the generator has (never changes)
    now,             \* wall clock read by datetime.now(), in minutes
    detection_data,  \* first argument of create_detection_results_map
    config,          \* second argument of create_detection_results_map
    n_detections,    \* local: number of points to generate
    i,               \* local: loop index of `for i in range(n_detections)`
    lat,             \* local
    lon,             \* local
    confidence,      \* local
    activity_type,   \* local
    color,           \* local
    alert_level,     \* local
    markers,         \* CircleMarkers added to detection_map, in order
    children,        \* the other layers of detection_map, in order
    alert_data,      \* module-level DataFrame columns
    saved,           \* number of markers in illicit_activity_detection_map.html
    draws,           \* history: the draws made on rng since the script started
    prev             \* history: what the previous call was given and returned

vars == <<pc, run, rng, mt_key, now, detection_data, config, n_detections, i,
          lat, lon, confidence, activity_type, color, alert_level, markers,
          children, alert_data, saved, draws, prev>>

locals == <<n_detections, i, lat, lon, confidence, activity_type, color,
            alert_level>>

-----------------------------------------------------------------------------
(* Bounds of the model. *)

MaxRuns == 2          \* script runs (streamlit re-runs the script in one process)
MaxNow == 1           \* minutes the clock may advance
MaxConfidence == 100  \* 1.0: top of the confidence domain of the pure checks
NumKeys == 8          \* how many seeding maps (streams) the behaviours cover

(* Program constants, in the model's units. *)

SeedValue == 42            \* np.random.seed(42)
CountLow == 5              \* np.random.randint(5, 15)
CountHigh == 15
CenterLat == 400155        \* 40.0155
CenterLon == -1052705      \* -105.2705
SigmaLat == 200            \* np.random.normal(0, 0.02)
SigmaLon == 300            \* np.random.normal(0, 0.03)
ConfLow == 30              \* np.random.uniform(0.3, 0.95)
ConfHigh == 95
HighThreshold == 80        \* confidence >= 0.8
MediumThreshold == 60      \* confidence >= 0.6
RadiusBase == 800          \* radius = 8 + confidence * 10
RadiusFactor == 10
NumDays == 31              \* np.random.poisson(lam, 31)
AlertsLam == 3
HighPriorityLam == 1
CasesLam == 2

ActivityTypes == <<"Illegal Mining", "Deforestation", "Construction", "Excavation">>

(* The abstract generator. *)
RngMod == 64
RngMul == 21
RngInc == 11
RngStates == 0 .. (RngMod - 1)
MtKeys == {k * (RngMod \div NumKeys) : k \in 0 .. (NumKeys - 1)}

-----------------------------------------------------------------------------
(* np.random: seeding and the draws. *)

\* np.random.seed(seed): the state depends on the seed alone.
MtSeed(seed, key) == (seed + key) % RngMod

\* one step of the generator
NextRng(s) == (RngMul * s + RngInc) % RngMod

RECURSIVE RngAfter(_, _)
\* the state after k draws
RngAfter(s, k) == IF k = 0 THEN s ELSE RngAfter(NextRng(s), k - 1)

\* np.random.randint(low, high): an integer in [low, high)
RandInt(raw, low, high) == low + (raw * (high - low)) \div RngMod

\* np.random.normal(0, sigma): 0 plus a multiple of sigma/2 within 3 sigma
Normal(raw, sigma) == (((raw * 13) \div RngMod) - 6) * (sigma \div 2)

\* a uniform draw that scales by high instead of by high - low
UniformNoSpan(raw, low, high) == low + (high * raw) \div RngMod

\* np.random.uniform(low, high) = low + (high - low) * random_sample(),
\* random_sample() = raw / RngMod in [0, 1)
Uniform(raw, low, high) == low + ((high - low) * raw) \div RngMod

\* np.random.choice(seq): seq[randint(0, len(seq))]
Choice(raw, seq) == seq[1 + RandInt(raw, 0, Len(seq))]

\* np.random.poisson(lam): a count whose spread grows with lam
Poisson(raw, lam) == (raw * (2 * lam + 1)) \div RngMod

\* np.random.poisson(lam, k): k draws in a row
PoissonSeries(s, lam, k) == [j \in 1 .. k |-> Poisson(RngAfter(s, j), lam)]

-----------------------------------------------------------------------------
(* create_detection_results_map, lines 148-182: the pure parts. *)

\* the thresholds compared with > instead of >=
AlertOfStrict(c) ==
    IF c > HighThreshold THEN <<"red", "HIGH">>
    ELSE IF c > MediumThreshold THEN <<"orange", "MEDIUM">>
    ELSE <<"yellow", "LOW">>

\* the MEDIUM branch given the LOW branch's colour
AlertOfWrongColor(c) ==
    IF c >= HighThreshold THEN <<"red", "HIGH">>
    ELSE IF c >= MediumThreshold THEN <<"yellow", "MEDIUM">>
    ELSE <<"yellow", "LOW">>

\* lines 149-157: <<color, alert_level>> of a confidence
AlertOf(c) ==
    IF c >= HighThreshold THEN <<"red", "HIGH">>
    ELSE IF c >= MediumThreshold THEN <<"orange", "MEDIUM">>
    ELSE <<"yellow", "LOW">>

\* the confidence truncated to an integer before it is scaled
RadiusTruncated(c) == RadiusBase + (c \div 100) * 100 * RadiusFactor

\* line 176
Radius(c) == RadiusBase + c * RadiusFactor

\* lines 160-182: the CircleMarker and its popup
CircleMarker(la, lo, c, act, col, lvl, t) ==
    [location |-> <<la, lo>>,
     radius |-> Radius(c),
     fillColor |-> col,
     popup |-> [activity_type |-> act, alert_level |-> lvl, confidence |-> c,
                location |-> <<la, lo>>, time |-> t]]

\* what a marker says about its point, the detection time left out
Point(m) ==
    [latitude |-> m.location[1], longitude |-> m.location[2],
     confidence |-> m.popup.confidence,
     activityType |-> m.popup.activity_type,
     alertLevel |-> m.popup.alert_level]

Points(ms) == [k \in 1 .. Len(ms) |-> Point(ms[k])]

-----------------------------------------------------------------------------
(* Inputs. *)

\* the arguments of a call: {} and confidence_threshold 0.5 as in the script
\* (lines 235-243), or detections and a threshold the sidebar slider allows
ArgInputs == {[detection_data |-> "empty", config |-> 50],
              [detection_data |-> "detections", config |-> 90]}

NoAlertData == [alerts |-> <<>>, high_priority |-> <<>>, cases_created |-> <<>>]
NoPrev == [called |-> FALSE, detection_data |-> "empty", config |-> 50,
           points |-> <<>>]

Init ==
    /\ pc = "idle"
    /\ run = 0
    /\ rng \in RngStates
    /\ mt_key \in MtKeys
    /\ now = 0
    /\ detection_data = "empty"
    /\ config = 50
    /\ n_detections = 0
    /\ i = 0
    /\ lat = 0
    /\ lon = 0
    /\ confidence = 0
    /\ activity_type = "none"
    /\ color = "none"
    /\ alert_level = "none"
    /\ markers = <<>>
    /\ children = <<>>
    /\ alert_data = NoAlertData
    /\ saved = 0
    /\ draws = <<>>
    /\ prev = NoPrev

-----------------------------------------------------------------------------
(* The script and the function, one action per statement. *)

\* line 243: detection_map = create_detection_results_map(...), on entry
RunScript ==
    /\ pc \in {"idle", "done"}
    /\ run < MaxRuns
    /\ run' = run + 1
    /\ \E a \in ArgInputs :
          /\ detection_data' = a.detection_data
          /\ config' = a.config
    /\ prev' = IF run = 0 THEN prev
               ELSE [called |-> TRUE, detection_data |-> detection_data,
                     config |-> config, points |-> Points(markers)]
    /\ markers' = <<>>
    /\ children' = <<>>
    /\ draws' = <<>>
    /\ pc' = "map"
    /\ UNCHANGED <<rng, mt_key, now, locals, alert_data, saved>>

\* lines 117-131
CreateBaseMap ==
    /\ pc = "map"
    /\ children' = <<"OpenStreetMap", "Satellite Imagery">>
    /\ pc' = "seed"
    /\ UNCHANGED <<run, rng, mt_key, now, detection_data, config, locals,
                   markers, alert_data, saved, draws, prev>>

\* line 134 left out: the generator keeps the state it had
Unseeded(s, key) == s

\* line 134 seeding from the config instead of from the constant
SeededFromConfig(s, key) == MtSeed(SeedValue + config, key)

\* the generator state after line 134
SeededState(s, key) == MtSeed(SeedValue, key)

\* line 134
Seed ==
    /\ pc = "seed"
    /\ rng' = SeededState(rng, mt_key)
    /\ pc' = "count"
    /\ UNCHANGED <<run, mt_key, now, detection_data, config, locals, markers,
                   children, alert_data, saved, draws, prev>>

\* the history of draws, one more: which draw, for which point, its value
Drawn(kind, point, value) ==
    Append(draws, [kind |-> kind, point |-> point, value |-> value])

\* range(n_detections + 1)
LoopHeadOffByOne(k, n) == IF k <= n THEN "lat" ELSE "roi"

\* where the loop goes with index k: line 137
LoopHead(k, n) == IF k < n THEN "lat" ELSE "roi"

\* line 135
DrawCount ==
    /\ pc = "count"
    /\ rng' = NextRng(rng)
    /\ n_detections' = RandInt(rng', CountLow, CountHigh)
    /\ i' = 0
    /\ draws' = Drawn("count", -1, n_detections')
    /\ pc' = LoopHead(0, n_detections')
    /\ UNCHANGED <<run, mt_key, now, detection_data, config, lat, lon,
                   confidence, activity_type, color, alert_level, markers,
                   children, alert_data, saved, prev>>

\* line 139 without its draw: the latitude is the centre's
DrawLatSkipped ==
    /\ pc = "lat"
    /\ lat' = CenterLat
    /\ pc' = "lon"
    /\ UNCHANGED <<run, rng, mt_key, now, detection_data, config, n_detections,
                   i, lon, confidence, activity_type, color, alert_level,
                   markers, children, alert_data, saved, draws, prev>>

\* line 139
DrawLat ==
    /\ pc = "lat"
    /\ rng' = NextRng(rng)
    /\ lat' = CenterLat + Normal(rng', SigmaLat)
    /\ draws' = Drawn("lat", i, lat')
    /\ pc' = "lon"
    /\ UNCHANGED <<run, mt_key, now, detection_data, config, n_detections, i,
                   lon, confidence, activity_type, color, alert_level, markers,
                   children, alert_data, saved, prev>>

\* line 140
DrawLon ==
    /\ pc = "lon"
    /\ rng' = NextRng(rng)
    /\ lon' = CenterLon + Normal(rng', SigmaLon)
    /\ draws' = Drawn("lon", i, lon')
    /\ pc' = "conf"
    /\ UNCHANGED <<run, mt_key, now, detection_data, config, n_detections, i,
                   lat, confidence, activity_type, color, alert_level, markers,
                   children, alert_data, saved, prev>>

\* line 143
DrawConf ==
    /\ pc = "conf"
    /\ rng' = NextRng(rng)
    /\ confidence' = Uniform(rng', ConfLow, ConfHigh)
    /\ draws' = Drawn("conf", i, confidence')
    /\ pc' = "type"
    /\ UNCHANGED <<run, mt_key, now, detection_data, config, n_detections, i,
                   lat, lon, activity_type, color, alert_level, markers,
                   children, alert_data, saved, prev>>

\* lines 144-146
DrawType ==
    /\ pc = "type"
    /\ rng' = NextRng(rng)
    /\ activity_type' = Choice(rng', ActivityTypes)
    /\ draws' = Drawn("type", i, activity_type')
    /\ pc' = "classify"
    /\ UNCHANGED <<run, mt_key, now, detection_data, config, n_detections, i,
                   lat, lon, confidence, color, alert_level, markers,
                   children, alert_data, saved, prev>>

\* lines 148-157
Classify ==
    /\ pc = "classify"
    /\ color' = AlertOf(confidence)[1]
    /\ alert_level' = AlertOf(confidence)[2]
    /\ pc' = "marker"
    /\ UNCHANGED <<run, rng, mt_key, now, detection_data, config, n_detections,
                   i, lat, lon, confidence, activity_type, markers, children,
                   alert_data, saved, draws, prev>>

\* lines 159-182, and the loop's step
AddMarker ==
    /\ pc = "marker"
    /\ markers' = Append(markers,
                         CircleMarker(lat, lon, confidence, activity_type,
                                      color, alert_level, now))
    /\ i' = i + 1
    /\ pc' = LoopHead(i + 1, n_detections)
    /\ UNCHANGED <<run, rng, mt_key, now, detection_data, config, n_detections,
                   lat, lon, confidence, activity_type, color, alert_level,
                   children, alert_data, saved, draws, prev>>

\* lines 184-205
AddOverlays ==
    /\ pc = "roi"
    /\ children' = children \o <<"Operational Zone Boundary", "LayerControl",
                                 "MiniMap">>
    /\ pc' = "return"
    /\ UNCHANGED <<run, rng, mt_key, now, detection_data, config, locals,
                   markers, alert_data, saved, draws, prev>>

\* line 207, back in the script at line 243
Return ==
    /\ pc = "return"
    /\ pc' = "alerts"
    /\ UNCHANGED <<run, rng, mt_key, now, detection_data, config, locals,
                   markers, children, alert_data, saved, draws, prev>>

\* line 248
DrawAlerts ==
    /\ pc = "alerts"
    /\ alert_data' = [alert_data EXCEPT
                        !.alerts = PoissonSeries(rng, AlertsLam, NumDays)]
    /\ rng' = RngAfter(rng, NumDays)
    /\ draws' = Drawn("poisson", -1, NumDays)
    /\ pc' = "high_priority"
    /\ UNCHANGED <<run, mt_key, now, detection_data, config, locals, markers,
                   children, saved, prev>>

\* line 249
DrawHighPriority ==
    /\ pc = "high_priority"
    /\ alert_data' = [alert_data EXCEPT
                        !.high_priority = PoissonSeries(rng, HighPriorityLam, NumDays)]
    /\ rng' = RngAfter(rng, NumDays)
    /\ draws' = Drawn("poisson", -1, NumDays)
    /\ pc' = "cases_created"
    /\ UNCHANGED <<run, mt_key, now, detection_data, config, locals, markers,
                   children, saved, prev>>

\* line 250
DrawCasesCreated ==
    /\ pc = "cases_created"
    /\ alert_data' = [alert_data EXCEPT
                        !.cases_created = PoissonSeries(rng, CasesLam, NumDays)]
    /\ rng' = RngAfter(rng, NumDays)
    /\ draws' = Drawn("poisson", -1, NumDays)
    /\ pc' = "save"
    /\ UNCHANGED <<run, mt_key, now, detection_data, config, locals, markers,
                   children, saved, prev>>

\* line 276
SaveMap ==
    /\ pc = "save"
    /\ saved' = Len(markers)
    /\ pc' = "done"
    /\ UNCHANGED <<run, rng, mt_key, now, detection_data, config, locals,
                   markers, children, alert_data, draws, prev>>

\* the clock advances; only line 166 reads it
Tick ==
    /\ pc = "marker"
    /\ now < MaxNow
    /\ now' = now + 1
    /\ UNCHANGED <<pc, run, rng, mt_key, detection_data, config, locals,
                   markers, children, alert_data, saved, draws, prev>>

Next ==
    \/ RunScript
    \/ CreateBaseMap
    \/ Seed
    \/ DrawCount
    \/ DrawLat
    \/ DrawLon
    \/ DrawConf
    \/ DrawType
    \/ Classify
    \/ AddMarker
    \/ AddOverlays
    \/ Return
    \/ DrawAlerts
    \/ DrawHighPriority
    \/ DrawCasesCreated
    \/ SaveMap
    \/ Tick

Spec == Init /\ [][Next]_vars

-----------------------------------------------------------------------------
(* The classification and the marker of lines 148-182 as functions of the  *)
(* confidence alone: two points whose confidences are any values in        *)
(* [0, 1], each classified and added by the actions above.                 *)

ConfDomain == 0 .. MaxConfidence

InitPoints ==
    /\ pc = "classify"
    /\ run = 1
    /\ rng = 0
    /\ mt_key = 0
    /\ now = 0
    /\ detection_data = "empty"
    /\ config = 50
    /\ n_detections = 2
    /\ i = 0
    /\ lat = CenterLat
    /\ lon = CenterLon
    /\ confidence \in ConfDomain
    /\ activity_type = ActivityTypes[1]
    /\ color = "none"
    /\ alert_level = "none"
    /\ markers = <<>>
    /\ children = <<>>
    /\ alert_data = NoAlertData
    /\ saved = 0
    /\ draws = <<>>
    /\ prev = NoPrev

\* line 143 with the draw replaced by any confidence of the domain
GivenConfidence ==
    /\ pc = "lat"
    /\ confidence' \in ConfDomain
    /\ pc' = "classify"
    /\ UNCHANGED <<run, rng, mt_key, now, detection_data, config, n_detections,
                   i, lat, lon, activity_type, color, alert_level, markers,
                   children, alert_data, saved, draws, prev>>

NextPoints ==
    \/ GivenConfidence
    \/ Classify
    \/ AddMarker

SpecPoints == InitPoints /\ [][NextPoints]_vars

-----------------------------------------------------------------------------
(* Properties. *)

InLoop == {"lat", "lon", "conf", "type", "classify", "marker"}
InCall == {"map", "seed", "count", "roi", "return"} \cup InLoop
AfterLoop == {"roi", "return", "alerts", "high_priority", "cases_created",
              "save", "done"}

Conf(m) == m.popup.confidence
Level(m) == m.popup.alert_level
Rank(level) == IF level = "HIGH" THEN 3 ELSE IF level = "MEDIUM" THEN 2 ELSE 1

\* the level the thresholds 0.8 and 0.6 give confidence c, range by range
InTier(c, level) ==
    /\ c >= 80 => level = "HIGH"
    /\ (60 <= c /\ c < 80) => level = "MEDIUM"
    /\ c < 60 => level = "LOW"

\* C1: the alert level is a threshold function of the confidence: HIGH from
\* 0.8 up, MEDIUM from 0.6 up to but not including 0.8, LOW below 0.6, for
\* every confidence in [0, 1]; equal confidences get equal levels.
ClassifyIsThreshold ==
    /\ pc = "marker" => InTier(confidence, alert_level)
    /\ \A k \in 1 .. Len(markers) : InTier(Conf(markers[k]), Level(markers[k]))
    /\ \A k1, k2 \in 1 .. Len(markers) :
          Conf(markers[k1]) = Conf(markers[k2])
              => Level(markers[k1]) = Level(markers[k2])

\* both boundaries at once: 0.6 is MEDIUM and the value just below it is LOW
ClassifyBoundaryReached ==
    /\ Len(markers) = 2
    /\ Conf(markers[1]) = 60 /\ Level(markers[1]) = "MEDIUM"
    /\ Conf(markers[2]) = 59 /\ Level(markers[2]) = "LOW"

\* C2: every marker on the map has one of the pairs (red, HIGH),
\* (orange, MEDIUM), (yellow, LOW) as fill colour and popup level, and the
\* pair is that of the tier its confidence falls in.
MarkerColourMatchesLevel ==
    \A k \in 1 .. Len(markers) :
        /\ <<markers[k].fillColor, Level(markers[k])>>
              \in {<<"red", "HIGH">>, <<"orange", "MEDIUM">>, <<"yellow", "LOW">>}
        /\ InTier(Conf(markers[k]), Level(markers[k]))

\* a returned map that shows all three colours
AllColoursOnMap ==
    /\ pc = "return"
    /\ {markers[k].fillColor : k \in 1 .. Len(markers)} = {"red", "orange", "yellow"}

\* the places in the history where `kind` was drawn for point p
DrawsOf(kind, p) ==
    {j \in 1 .. Len(draws) : draws[j].kind = kind /\ draws[j].point = p}

\* marker k holds exactly the values drawn for point k - 1
MadeOfItsDraws(k) ==
    /\ \A kind \in {"lat", "lon", "conf", "type"} :
          Cardinality(DrawsOf(kind, k - 1)) = 1
    /\ \A j \in DrawsOf("lat", k - 1) : markers[k].location[1] = draws[j].value
    /\ \A j \in DrawsOf("lon", k - 1) : markers[k].location[2] = draws[j].value
    /\ \A j \in DrawsOf("conf", k - 1) : Conf(markers[k]) = draws[j].value
    /\ \A j \in DrawsOf("type", k - 1) :
          markers[k].popup.activity_type = draws[j].value

ConfidenceInRange ==
    /\ pc \in {"type", "classify", "marker"} => (30 <= confidence /\ confidence < 95)
    /\ \A k \in 1 .. Len(markers) :
          30 <= Conf(markers[k]) /\ Conf(markers[k]) < 95

\* a batch whose confidences fall in all three tiers
AllTiersDrawn ==
    /\ pc = "return"
    /\ \E k \in 1 .. Len(markers) : Conf(markers[k]) < 60
    /\ \E k \in 1 .. Len(markers) : 60 <= Conf(markers[k]) /\ Conf(markers[k]) < 80
    /\ \E k \in 1 .. Len(markers) : 80 <= Conf(markers[k])

\* C5: a call given the same arguments as the call before it returns the
\* same number of points and, position by position, the same latitude,
\* longitude, confidence and activity type.
SameInputsSameOutput ==
    (/\ pc \in AfterLoop
     /\ prev.called
     /\ prev.detection_data = detection_data
     /\ prev.config = config)
    => /\ Len(markers) = Len(prev.points)
       /\ \A k \in 1 .. Len(markers) :
             /\ markers[k].location[1] = prev.points[k].latitude
             /\ markers[k].location[2] = prev.points[k].longitude
             /\ Conf(markers[k]) = prev.points[k].confidence
             /\ markers[k].popup.activity_type = prev.points[k].activityType

\* a second call with the arguments of the first has returned, a minute later
RepeatedCallReturned ==
    /\ pc = "return"
    /\ run = 2
    /\ prev.called
    /\ prev.detection_data = detection_data
    /\ prev.config = config
    /\ Len(markers) >= 5
    /\ markers[1].popup.time = 1

\* C7: a call leaves the process-wide random source as it found it: no step
\* taken inside create_detection_results_map changes the generator's state.
CallLeavesRandomSourceUnchanged == [][(pc \in InCall) => (rng' = rng)]_vars

DrawPattern == <<"lat", "lon", "conf", "type">>

\* C9: after the draw of the count, the draws on the random source are
\* latitude, longitude, confidence, activity type for point 0, then the same
\* four for point 1, and so on: four per point, and no other draw before the
\* last point's four are made.
DrawsInFixedOrder ==
    /\ \A j \in 1 .. Len(draws) :
          IF j = 1 THEN draws[j].kind = "count"
          ELSE IF j <= 1 + 4 * n_detections
               THEN /\ draws[j].kind = DrawPattern[((j - 2) % 4) + 1]
                    /\ draws[j].point = (j - 2) \div 4
               ELSE draws[j].kind = "poisson"
    /\ pc \in InCall => Len(draws) <= 1 + 4 * n_detections
    /\ pc \in AfterLoop => Len(draws) >= 1 + 4 * n_detections

\* the call is over and every point's four draws are in the history
AllPointsDrawn ==
    /\ pc = "return"
    /\ n_detections >= 5
    /\ Len(draws) = 1 + 4 * n_detections
    /\ draws[Len(draws)].kind = "type"
    /\ draws[Len(draws)].point = n_detections - 1

RECURSIVE PointsFrom(_, _)
\* the n points that follow generator state s
PointsFrom(s, n) ==
    IF n = 0 THEN <<>>
    ELSE LET s1 == NextRng(s)
             s2 == NextRng(s1)
             s3 == NextRng(s2)
             s4 == NextRng(s3)
             c == Uniform(s3, ConfLow, ConfHigh)
         IN  <<[latitude |-> CenterLat + Normal(s1, SigmaLat),
                longitude |-> CenterLon + Normal(s2, SigmaLon),
                confidence |-> c,
                activityType |-> Choice(s4, ActivityTypes),
                alertLevel |-> AlertOf(c)[2]]>> \o PointsFrom(s4, n - 1)

\* the points that follow from seed 42 and nothing else
PointsOfSeed ==
    LET s1 == NextRng(MtSeed(SeedValue, mt_key))
    IN  PointsFrom(s1, RandInt(s1, CountLow, CountHigh))

\* C10: the markers of a call are those that follow from seed 42 alone,
\* whatever the arguments and whatever was drawn before the call: between 5
\* and 14 of them, the same as the call before returned, with the same
\* locations, confidences, activity types and alert levels.
MarkersIndependentOfInputs ==
    pc \in AfterLoop =>
        /\ Len(markers) >= 5 /\ Len(markers) <= 14
        /\ Points(markers) = PointsOfSeed
        /\ prev.called => Points(markers) = prev.points

\* a second call with other arguments than the first has returned
CallWithOtherArgumentsReturned ==
    /\ pc = "return"
    /\ run = 2
    /\ prev.called
    /\ prev.detection_data # detection_data
    /\ prev.config # config
    /\ Len(markers) >= 5

====
